---- MODULE Spec2Model ----
(***************************************************************************)
(* A model of the YNAB MCP server: the tool registry (list_tools), the     *)
(* dispatch adapter (call_tool, _execute_tool), the configuration loader   *)
(* (Config.from_env) and the API gateway client (YNABClient).              *)
(*                                                                         *)
(* Texts (paths, messages, serialized payloads) are TLA+ strings built     *)
(* with \o, so that "contains", "starts with" and equality of texts are    *)
(* decided on the characters the code produces.                            *)
(***************************************************************************)
EXTENDS Integers, Sequences, FiniteSets, TLC

VARIABLES
    environ,    \* os.environ: a mapping from variable name to value
    clients,    \* every YNABClient constructed so far, in order of construction
    pc,         \* position of the current call_tool invocation
    name,       \* call_tool's `name`
    arguments,  \* call_tool's `arguments`
    cur,        \* index in clients of the invocation's client, 0 when it has none
    method,     \* the client method _execute_tool invoked, "" when none
    requests,   \* the calls of self._client.get made by the invocation, in order
    response,   \* what the upstream answered to the GET
    exc,        \* the exception raised inside call_tool's try block, NoExc when none
    payload,    \* what _execute_tool returned
    result,     \* the list call_tool returned
    scope,      \* direct use: per client, its position relative to a `with` block
    closeCalls, \* direct use: per client, how many times close() was called
    origin,     \* per client, what constructed it: get_ynab_client or a direct call
    listed,     \* what the caller's last call of list_tools returned, <<>> before it
    last,       \* an earlier invocation of call_tool, as its caller remembers it
    calls       \* the call_tool invocations in flight together, in order of start

vars == <<environ, clients, pc, name, arguments, cur, method, requests,
          response, exc, payload, result, scope, closeCalls, origin, listed, last,
          calls>>

----------------------------------------------------------------------------
(* Bounds of the model *)

\* an argument mapping holds at most this many keys
MaxArgs == 3
\* at most this many clients are constructed in one behaviour
MaxClients == 3
\* close() is called directly at most this many times on one client
MaxCloses == 3

----------------------------------------------------------------------------
(* Python values *)

\* Python's None, where a string is expected
None == "<None>"

\* str(v) as an f-string formats it
Str(v) == IF v = None THEN "None" ELSE v

\* a test that would let the empty string pass: `if v is not None:`
IsNotNone(v) == v # None

\* bool(v) for v a string or None: `if v:`
Truthy(v) == v # None /\ v # ""

\* s[i:] and substring search, on texts
Contains(s, sub) ==
    \E i \in 1..(Len(s) - Len(sub) + 1) : SubSeq(s, i, i + Len(sub) - 1) = sub

StartsWith(s, prefix) ==
    Len(s) >= Len(prefix) /\ SubSeq(s, 1, Len(prefix)) = prefix

\* a mapping with no key
EmptyMap == [k \in {} |-> None]

\* d.get(k): None when k is missing
DictGet(d, k) == IF k \in DOMAIN d THEN d[k] ELSE None

\* d.get(k, default)
DictGetDefault(d, k, default) == IF k \in DOMAIN d THEN d[k] ELSE default

(* Exceptions: the class and str(e) *)
Exc(kind, msg) == [kind |-> kind, msg |-> msg]
NoExc == Exc("", "")

\* the classes an exception of class `kind` is an instance of
Mro(kind) ==
    CASE kind = "YNABClientError" -> {"YNABClientError", "Exception"}
      [] kind = "ValueError"      -> {"ValueError", "Exception"}
      [] kind = "JSONDecodeError" -> {"JSONDecodeError", "ValueError", "Exception"}
      [] kind = "KeyError"        -> {"KeyError", "LookupError", "Exception"}
      [] kind = "RuntimeError"    -> {"RuntimeError", "Exception"}
      [] OTHER                    -> {}

IsInstance(e, cls) == cls \in Mro(e.kind)

\* d[k] on a missing key: str(KeyError(k)) is repr(k)
KeyError(k) == Exc("KeyError", "'" \o k \o "'")

----------------------------------------------------------------------------
(* JSON values and json.dumps(data, indent=2) *)

JNull == [t |-> "null"]
JString(s) == [t |-> "string", s |-> s]
JNumber(n) == [t |-> "number", n |-> n]
JArray(items) == [t |-> "array", items |-> items]
JObject(members) == [t |-> "object", members |-> members]
Member(k, v) == [k |-> k, v |-> v]

RECURSIVE Spaces(_)
Spaces(n) == IF n = 0 THEN "" ELSE " " \o Spaces(n - 1)

\* the escapes of a JSON string: the quote and the backslash get a backslash,
\* a line feed becomes \n
RECURSIVE Escape(_)
Escape(s) ==
    IF s = "" THEN ""
    ELSE LET c == SubSeq(s, 1, 1)
         IN  (CASE c = "\"" -> "\\\""
                [] c = "\\" -> "\\\\"
                [] c = "\n" -> "\\n"
                [] OTHER    -> c)
             \o Escape(SubSeq(s, 2, Len(s)))

RECURSIVE Dumps(_, _)
RECURSIVE DumpItems(_, _, _)
RECURSIVE DumpMembers(_, _, _)

\* the items of an array from the i-th on, one per line
DumpItems(items, i, level) ==
    IF i > Len(items) THEN ""
    ELSE Spaces(2 * level) \o Dumps(items[i], level)
         \o (IF i < Len(items) THEN ",\n" ELSE "\n")
         \o DumpItems(items, i + 1, level)

\* the members of an object from the i-th on, one per line
DumpMembers(members, i, level) ==
    IF i > Len(members) THEN ""
    ELSE Spaces(2 * level) \o "\"" \o Escape(members[i].k) \o "\": "
         \o Dumps(members[i].v, level)
         \o (IF i < Len(members) THEN ",\n" ELSE "\n")
         \o DumpMembers(members, i + 1, level)

\* json.dumps(j, indent=2) of a value nested `level` deep
Dumps(j, level) ==
    CASE j.t = "null"   -> "null"
      [] j.t = "string" -> "\"" \o Escape(j.s) \o "\""
      [] j.t = "number" -> ToString(j.n)
      [] j.t = "array"  ->
            IF j.items = <<>> THEN "[]"
            ELSE "[\n" \o DumpItems(j.items, 1, level + 1)
                 \o Spaces(2 * level) \o "]"
      [] j.t = "object" ->
            IF j.members = <<>> THEN "{}"
            ELSE "{\n" \o DumpMembers(j.members, 1, level + 1)
                 \o Spaces(2 * level) \o "}"

\* format_response as it would be if it unwrapped the "data" envelope
FormatResponseUnwrapped(data) ==
    IF data.t = "object" /\ Len(data.members) = 1
    THEN Dumps(data.members[1].v, 0)
    ELSE Dumps(data, 0)

format_response(data) == Dumps(data, 0)

\* json.loads(s): a recursive descent over the characters of s; a parse yields
\* the value read and the position after it, or fails
JInvalid == [t |-> "invalid"]
Parsed(v, i) == [ok |-> TRUE, v |-> v, i |-> i]
ParseFailed == [ok |-> FALSE, v |-> JInvalid, i |-> 0]
CharAt(s, i) == IF i \in 1..Len(s) THEN SubSeq(s, i, i) ELSE ""
Digits == {"0", "1", "2", "3", "4", "5", "6", "7", "8", "9"}
DigitValue(c) == CHOOSE d \in 0..9 : ToString(d) = c

RECURSIVE SkipWhitespace(_, _)
SkipWhitespace(s, i) ==
    IF CharAt(s, i) \in {" ", "\n", "\t", "\r"} THEN SkipWhitespace(s, i + 1) ELSE i

\* the characters of a string from i up to its closing quote, unescaped
RECURSIVE ParseString(_, _, _)
ParseString(s, i, acc) ==
    LET c == CharAt(s, i)
        e == CharAt(s, i + 1)
    IN  CASE c = ""   -> ParseFailed
          [] c = "\"" -> Parsed(acc, i + 1)
          [] c = "\\" ->
                (CASE e \in {"\"", "\\", "/"} -> ParseString(s, i + 2, acc \o e)
                   [] e = "n" -> ParseString(s, i + 2, acc \o "\n")
                   [] OTHER   -> ParseFailed)
          [] OTHER    -> ParseString(s, i + 1, acc \o c)

\* the digits from i on, as the number they denote after n
RECURSIVE ParseDigits(_, _, _)
ParseDigits(s, i, n) ==
    IF CharAt(s, i) \in Digits
    THEN ParseDigits(s, i + 1, 10 * n + DigitValue(CharAt(s, i)))
    ELSE Parsed(n, i)

RECURSIVE ParseValue(_, _)
RECURSIVE ParseItems(_, _, _)
RECURSIVE ParseMembers(_, _, _)

\* the items of an array from i on, after those of acc
ParseItems(s, i, acc) ==
    LET item == ParseValue(s, SkipWhitespace(s, i))
        j == SkipWhitespace(s, item.i)
    IN  IF ~item.ok THEN ParseFailed
        ELSE CASE CharAt(s, j) = "," -> ParseItems(s, j + 1, Append(acc, item.v))
               [] CharAt(s, j) = "]" -> Parsed(JArray(Append(acc, item.v)), j + 1)
               [] OTHER -> ParseFailed

\* the members of an object from i on, after those of acc
ParseMembers(s, i, acc) ==
    LET q == SkipWhitespace(s, i)
        key == IF CharAt(s, q) = "\"" THEN ParseString(s, q + 1, "") ELSE ParseFailed
        colon == SkipWhitespace(s, key.i)
        val == IF key.ok /\ CharAt(s, colon) = ":"
               THEN ParseValue(s, SkipWhitespace(s, colon + 1))
               ELSE ParseFailed
        j == SkipWhitespace(s, val.i)
        members == Append(acc, Member(key.v, val.v))
    IN  IF ~val.ok THEN ParseFailed
        ELSE CASE CharAt(s, j) = "," -> ParseMembers(s, j + 1, members)
               [] CharAt(s, j) = "}" -> Parsed(JObject(members), j + 1)
               [] OTHER -> ParseFailed

\* the value that starts at i
ParseValue(s, i) ==
    LET c == CharAt(s, i)
    IN  CASE c = "n" ->
                IF SubSeq(s, i, i + 3) = "null" THEN Parsed(JNull, i + 4) ELSE ParseFailed
          [] c = "\"" ->
                LET str == ParseString(s, i + 1, "")
                IN  IF str.ok THEN Parsed(JString(str.v), str.i) ELSE ParseFailed
          [] c = "-" ->
                LET num == ParseDigits(s, i + 1, 0)
                IN  IF num.i > i + 1 THEN Parsed(JNumber(0 - num.v), num.i) ELSE ParseFailed
          [] c \in Digits ->
                LET num == ParseDigits(s, i, 0)
                IN  Parsed(JNumber(num.v), num.i)
          [] c = "[" ->
                IF CharAt(s, SkipWhitespace(s, i + 1)) = "]"
                THEN Parsed(JArray(<<>>), SkipWhitespace(s, i + 1) + 1)
                ELSE ParseItems(s, i + 1, <<>>)
          [] c = "{" ->
                IF CharAt(s, SkipWhitespace(s, i + 1)) = "}"
                THEN Parsed(JObject(<<>>), SkipWhitespace(s, i + 1) + 1)
                ELSE ParseMembers(s, i + 1, <<>>)
          [] OTHER -> ParseFailed

Loads(s) ==
    LET doc == ParseValue(s, SkipWhitespace(s, 1))
    IN  IF doc.ok /\ SkipWhitespace(s, doc.i) = Len(s) + 1 THEN doc.v ELSE JInvalid

----------------------------------------------------------------------------
(* config.py *)

DefaultBaseUrl == "https://api.ynab.com/v1"

Config(ynab_token, ynab_base_url) ==
    [ynab_token |-> ynab_token, ynab_base_url |-> ynab_base_url]

NoConfig == Config("", "")

TokenRequiredMessage ==
    "YNAB_TOKEN environment variable is required. "
    \o "Please set it to your YNAB personal access token."

\* from_env as it would be if it never read the base URL override
FromEnvIgnoringOverride(env) ==
    LET ynab_token == DictGet(env, "YNAB_TOKEN")
    IN  IF ~Truthy(ynab_token)
        THEN [raised |-> TRUE,
              exc    |-> Exc("ValueError", TokenRequiredMessage),
              config |-> NoConfig]
        ELSE [raised |-> FALSE,
              exc    |-> NoExc,
              config |-> Config(ynab_token, DefaultBaseUrl)]

\* Config.from_env under the environment env
from_env(env) ==
    LET ynab_token == DictGet(env, "YNAB_TOKEN")
    IN  IF ~Truthy(ynab_token)
        THEN [raised |-> TRUE,
              exc    |-> Exc("ValueError", TokenRequiredMessage),
              config |-> NoConfig]
        ELSE [raised |-> FALSE,
              exc    |-> NoExc,
              config |-> Config(ynab_token,
                                DictGetDefault(env, "YNAB_BASE_URL", DefaultBaseUrl))]

get_config(env) == from_env(env)

----------------------------------------------------------------------------
(* ynab_client.py: the client and its HTTP session *)

TimeoutSeconds == 30

\* a client whose session would send the credential without the Bearer scheme
YNABClientWithoutScheme(config) ==
    [config  |-> config,
     session |-> [base_url  |-> config.ynab_base_url,
                  headers   |-> [Authorization |-> config.ynab_token,
                                 ContentType   |-> "application/json"],
                  timeout   |-> TimeoutSeconds,
                  is_closed |-> FALSE,
                  transport_closes |-> 0]]

\* YNABClient(config): binds an httpx.Client to the base URL and the credential
YNABClient(config) ==
    [config  |-> config,
     session |-> [base_url  |-> config.ynab_base_url,
                  headers   |-> [Authorization |-> "Bearer " \o config.ynab_token,
                                 ContentType   |-> "application/json"],
                  timeout   |-> TimeoutSeconds,
                  is_closed |-> FALSE,
                  transport_closes |-> 0]]

\* self._client.close(): the session closes its transport unless it is closed
\* already
SessionClose(session) ==
    IF session.is_closed THEN session
    ELSE [session EXCEPT !.is_closed = TRUE,
                         !.transport_closes = session.transport_closes + 1]

\* close as it would be if a second close were an error
CloseRaisingWhenClosed(client) ==
    IF client.session.is_closed
    THEN [raised |-> TRUE,
          exc    |-> Exc("RuntimeError", "client is already closed"),
          client |-> client]
    ELSE [raised |-> FALSE, exc |-> NoExc,
          client |-> [client EXCEPT !.session = SessionClose(client.session)]]

\* YNABClient.close: the client after the call, and the exception the call
\* raised (none: closing the session raises nothing)
close(client) ==
    [raised |-> FALSE, exc |-> NoExc,
     client |-> [client EXCEPT !.session = SessionClose(client.session)]]

\* YNABClient.__enter__ returns self
\* __enter__ as it would be if it handed out a client already closed
EnterClosed(client) == [client EXCEPT !.session = SessionClose(client.session)]

__enter__(client) == client

\* __exit__ as it would be if it left the session alone
ExitWithoutClose(client) == [raised |-> FALSE, exc |-> NoExc, client |-> client]

\* YNABClient.__exit__ calls close, whatever exception is leaving the block
__exit__(client) == close(client)

(* The GET and what the upstream answers *)

\* no query parameters
NoParams == EmptyMap

\* a get that would send the server knowledge of earlier sessions along
ClientGetWithKnowledge(endpoint) ==
    [http_method |-> "GET",
     url |-> IF Len(clients) > 1
             THEN endpoint \o "?last_knowledge_of_server=" \o ToString(Len(clients) - 1)
             ELSE endpoint,
     params |-> NoParams]

\* self._client.get(endpoint): endpoint is the only argument, so the request
\* carries httpx's default for params (None: no query parameters)
ClientGet(endpoint) == [http_method |-> "GET", url |-> endpoint, params |-> NoParams]

\* an HTTP response, or the failure of the transport to deliver one
HttpResponse(status_code, text, json_ok, json) ==
    [kind |-> "response", status_code |-> status_code, text |-> text,
     json_ok |-> json_ok, json |-> json, error |-> ""]
RequestError(description) ==
    [kind |-> "request_error", status_code |-> 0, text |-> "",
     json_ok |-> FALSE, json |-> JNull, error |-> description]
NoResponse ==
    [kind |-> "", status_code |-> 0, text |-> "",
     json_ok |-> FALSE, json |-> JNull, error |-> ""]

\* response.is_success, which raise_for_status tests
IsSuccess(r) == 200 <= r.status_code /\ r.status_code <= 299

JSONDecodeMessage == "Expecting value: line 1 column 1 (char 0)"

\* the message for httpx.HTTPStatusError as it would be without the body
HTTPStatusErrorMessageNoBody(r) ==
    "YNAB API request failed with status " \o ToString(r.status_code)

\* the message of the error raised for httpx.HTTPStatusError
HTTPStatusErrorMessage(r) ==
    "YNAB API request failed with status "
    \o ToString(r.status_code) \o ": " \o r.text

\* the message for httpx.RequestError as it would be without str(e)
RequestErrorMessageGeneric(r) == "YNAB API request failed"

\* the message of the error raised for httpx.RequestError
RequestErrorMessage(r) == "YNAB API request failed: " \o r.error

\* YNABClient._make_request once the upstream has answered r to the GET
_make_request(r) ==
    IF r.kind = "request_error"
    THEN [raised |-> TRUE,
          exc    |-> Exc("YNABClientError", RequestErrorMessage(r)),
          value  |-> JNull]
    ELSE IF ~IsSuccess(r)
    THEN [raised |-> TRUE,
          exc    |-> Exc("YNABClientError", HTTPStatusErrorMessage(r)),
          value  |-> JNull]
    ELSE IF ~r.json_ok
    THEN [raised |-> TRUE,
          exc    |-> Exc("JSONDecodeError", JSONDecodeMessage),
          value  |-> JNull]
    ELSE [raised |-> FALSE, exc |-> NoExc, value |-> r.json]

\* the calls of self._client.get that _make_request makes after the first one
\* was answered r, as it would be if a failed GET were tried once more
RetryOnceOnFailure(r, made) ==
    IF r.kind = "request_error" \/ ~IsSuccess(r) THEN <<made[1]>> ELSE <<>>

\* the calls of self._client.get that _make_request makes after the first one
\* was answered r: none, both except clauses raise at once
Retries(r, made) == <<>>

(* The public methods: each gives the endpoint it hands to _make_request *)

RECURSIVE JoinParams(_)
\* "&".join(f"{k}={v}" for k, v in params.items())
JoinParams(params) ==
    IF params = <<>> THEN ""
    ELSE params[1][1] \o "=" \o Str(params[1][2])
         \o (IF Len(params) > 1 THEN "&" ELSE "")
         \o JoinParams(Tail(params))

get_budgets == "/budgets"

\* get_budget as it would be if it resolved the sentinel itself
GetBudgetResolvingLastUsed(budget_id) ==
    "/budgets/" \o (IF budget_id = "last-used" THEN "budget-1" ELSE Str(budget_id))

get_budget(budget_id) == "/budgets/" \o Str(budget_id)

get_budget_settings(budget_id) == "/budgets/" \o Str(budget_id) \o "/settings"

get_accounts(budget_id) == "/budgets/" \o Str(budget_id) \o "/accounts"

\* get_account as it would be with its two identifiers exchanged
GetAccountSwapped(budget_id, account_id) ==
    "/budgets/" \o Str(account_id) \o "/accounts/" \o Str(budget_id)

get_account(budget_id, account_id) ==
    "/budgets/" \o Str(budget_id) \o "/accounts/" \o Str(account_id)

get_categories(budget_id) == "/budgets/" \o Str(budget_id) \o "/categories"

get_category(budget_id, category_id) ==
    "/budgets/" \o Str(budget_id) \o "/categories/" \o Str(category_id)

get_payees(budget_id) == "/budgets/" \o Str(budget_id) \o "/payees"

get_payee(budget_id, payee_id) ==
    "/budgets/" \o Str(budget_id) \o "/payees/" \o Str(payee_id)

\* get_transactions as it would be if it held the type filter to the enum of
\* the tool's schema
GetTransactionsEnumChecked(budget_id, since_date, type_filter) ==
    LET params ==
            (IF Truthy(since_date) THEN << <<"since_date", since_date>> >> ELSE <<>>)
            \o (IF type_filter \in {"uncategorized", "unapproved"}
                THEN << <<"type", type_filter>> >> ELSE <<>>)
        endpoint == "/budgets/" \o Str(budget_id) \o "/transactions"
    IN  IF params # <<>>
        THEN endpoint \o "?" \o JoinParams(params)
        ELSE endpoint

get_transactions(budget_id, since_date, type_filter) ==
    LET params ==
            (IF Truthy(since_date) THEN << <<"since_date", since_date>> >> ELSE <<>>)
            \o (IF Truthy(type_filter) THEN << <<"type", type_filter>> >> ELSE <<>>)
        endpoint == "/budgets/" \o Str(budget_id) \o "/transactions"
    IN  IF params # <<>>
        THEN endpoint \o "?" \o JoinParams(params)
        ELSE endpoint

get_transaction(budget_id, transaction_id) ==
    "/budgets/" \o Str(budget_id) \o "/transactions/" \o Str(transaction_id)

get_transactions_by_account(budget_id, account_id, since_date) ==
    LET endpoint == "/budgets/" \o Str(budget_id) \o "/accounts/"
                    \o Str(account_id) \o "/transactions"
    IN  IF Truthy(since_date)
        THEN endpoint \o "?since_date=" \o Str(since_date)
        ELSE endpoint

get_transactions_by_category(budget_id, category_id, since_date) ==
    LET endpoint == "/budgets/" \o Str(budget_id) \o "/categories/"
                    \o Str(category_id) \o "/transactions"
    IN  IF Truthy(since_date)
        THEN endpoint \o "?since_date=" \o Str(since_date)
        ELSE endpoint

get_transactions_by_payee(budget_id, payee_id, since_date) ==
    LET endpoint == "/budgets/" \o Str(budget_id) \o "/payees/"
                    \o Str(payee_id) \o "/transactions"
    IN  IF Truthy(since_date)
        THEN endpoint \o "?since_date=" \o Str(since_date)
        ELSE endpoint

get_months(budget_id) == "/budgets/" \o Str(budget_id) \o "/months"

get_month(budget_id, month) ==
    "/budgets/" \o Str(budget_id) \o "/months/" \o Str(month)

get_scheduled_transactions(budget_id) ==
    "/budgets/" \o Str(budget_id) \o "/scheduled_transactions"

get_scheduled_transaction(budget_id, scheduled_transaction_id) ==
    "/budgets/" \o Str(budget_id) \o "/scheduled_transactions/"
    \o Str(scheduled_transaction_id)

----------------------------------------------------------------------------
(* main.py: the tool registry *)

\* a Tool whose inputSchema would declare no properties
ToolWithoutProperties(tool_name, description, properties, required) ==
    [name |-> tool_name, description |-> description,
     properties |-> {}, required |-> required]

\* a Tool: its name, its description, and of its inputSchema the names of the
\* properties and the "required" list
Tool(tool_name, description, properties, required) ==
    [name |-> tool_name, description |-> description,
     properties |-> properties, required |-> required]

\* the "enum" of a property of a tool's schema, {} when it declares none
SchemaEnum(tool_name, property) ==
    IF tool_name = "get_transactions" /\ property = "type"
    THEN {"uncategorized", "unapproved"}
    ELSE {}

list_tools ==
    << Tool("get_budgets",
            "Get all budgets associated with the YNAB account",
            {}, <<>>),
       Tool("get_budget",
            "Get a single budget by ID. "
            \o "Use 'last-used' for the most recently accessed budget.",
            {"budget_id"}, <<"budget_id">>),
       Tool("get_budget_settings",
            "Get settings for a budget including currency format",
            {"budget_id"}, <<"budget_id">>),
       Tool("get_accounts",
            "Get all accounts for a budget",
            {"budget_id"}, <<"budget_id">>),
       Tool("get_account",
            "Get a single account by ID",
            {"budget_id", "account_id"}, <<"budget_id", "account_id">>),
       Tool("get_categories",
            "Get all categories for a budget",
            {"budget_id"}, <<"budget_id">>),
       Tool("get_category",
            "Get a single category by ID",
            {"budget_id", "category_id"}, <<"budget_id", "category_id">>),
       Tool("get_payees",
            "Get all payees for a budget",
            {"budget_id"}, <<"budget_id">>),
       Tool("get_payee",
            "Get a single payee by ID",
            {"budget_id", "payee_id"}, <<"budget_id", "payee_id">>),
       Tool("get_transactions",
            "Get transactions for a budget. Optionally filter by date or type.",
            {"budget_id", "since_date", "type"}, <<"budget_id">>),
       Tool("get_transaction",
            "Get a single transaction by ID",
            {"budget_id", "transaction_id"}, <<"budget_id", "transaction_id">>),
       Tool("get_transactions_by_account",
            "Get transactions for a specific account",
            {"budget_id", "account_id", "since_date"},
            <<"budget_id", "account_id">>),
       Tool("get_transactions_by_category",
            "Get transactions for a specific category",
            {"budget_id", "category_id", "since_date"},
            <<"budget_id", "category_id">>),
       Tool("get_transactions_by_payee",
            "Get transactions for a specific payee",
            {"budget_id", "payee_id", "since_date"},
            <<"budget_id", "payee_id">>),
       Tool("get_months",
            "Get all budget months",
            {"budget_id"}, <<"budget_id">>),
       Tool("get_month",
            "Get a single budget month with category balances",
            {"budget_id", "month"}, <<"budget_id", "month">>),
       Tool("get_scheduled_transactions",
            "Get all scheduled transactions for a budget",
            {"budget_id"}, <<"budget_id">>),
       Tool("get_scheduled_transaction",
            "Get a single scheduled transaction by ID",
            {"budget_id", "scheduled_transaction_id"},
            <<"budget_id", "scheduled_transaction_id">>) >>

\* the names the registry declares, and the descriptor of one of them
ToolNames == {list_tools[i].name : i \in DOMAIN list_tools}
ToolNamed(n) == list_tools[CHOOSE i \in DOMAIN list_tools : list_tools[i].name = n]
Required(n) == {ToolNamed(n).required[i] : i \in DOMAIN ToolNamed(n).required}

----------------------------------------------------------------------------
(* main.py: _execute_tool *)

\* the subscripts as they would be if only the first were a subscript and the
\* others were arguments.get(k)
SubscriptsFirstOnly(args, keys) ==
    IF keys # <<>> /\ keys[1] \notin DOMAIN args THEN KeyError(keys[1]) ELSE NoExc

\* the outcome of evaluating the subscripts arguments[k], k in keys, in order:
\* the KeyError of the first missing key, NoExc when none is missing
Subscripts(args, keys) ==
    LET missing == {i \in DOMAIN keys : keys[i] \notin DOMAIN args}
    IN  IF missing = {} THEN NoExc
        ELSE KeyError(keys[CHOOSE i \in missing : \A j \in missing : i <= j])

\* _execute_tool ended by raising e
Raises(e) == [raised |-> TRUE, exc |-> e, method |-> "", endpoint |-> ""]

\* _execute_tool called the client method m, which handed endpoint to
\* _make_request
Calls(m, endpoint) ==
    [raised |-> FALSE, exc |-> NoExc, method |-> m, endpoint |-> endpoint]

\* the default case as it would be if it fell back to the parameterless tool
UnknownToolFallsBack(n) == Calls("get_budgets", get_budgets)

\* the default case of the match
UnknownTool(n) == Raises(Exc("ValueError", "Unknown tool: " \o n))

\* a case as it would be if the case of one tool called the method of another
CaseMisrouted(args, keys, m, endpoint) ==
    IF Subscripts(args, keys) # NoExc
    THEN Raises(Subscripts(args, keys))
    ELSE IF m = "get_payee"
    THEN Calls("get_payees", get_payees(DictGet(args, "budget_id")))
    ELSE Calls(m, endpoint)

\* a case of the match whose arguments are the subscripts of keys
Case(args, keys, m, endpoint) ==
    IF Subscripts(args, keys) # NoExc
    THEN Raises(Subscripts(args, keys))
    ELSE Calls(m, endpoint)

\* _execute_tool(client, name, arguments), up to the GET
_execute_tool(n, args) ==
    CASE n = "get_budgets" ->
            Calls("get_budgets", get_budgets)
      [] n = "get_budget" ->
            Case(args, <<"budget_id">>, "get_budget",
                 get_budget(DictGet(args, "budget_id")))
      [] n = "get_budget_settings" ->
            Case(args, <<"budget_id">>, "get_budget_settings",
                 get_budget_settings(DictGet(args, "budget_id")))
      [] n = "get_accounts" ->
            Case(args, <<"budget_id">>, "get_accounts",
                 get_accounts(DictGet(args, "budget_id")))
      [] n = "get_account" ->
            Case(args, <<"budget_id", "account_id">>, "get_account",
                 get_account(DictGet(args, "budget_id"),
                             DictGet(args, "account_id")))
      [] n = "get_categories" ->
            Case(args, <<"budget_id">>, "get_categories",
                 get_categories(DictGet(args, "budget_id")))
      [] n = "get_category" ->
            Case(args, <<"budget_id", "category_id">>, "get_category",
                 get_category(DictGet(args, "budget_id"),
                              DictGet(args, "category_id")))
      [] n = "get_payees" ->
            Case(args, <<"budget_id">>, "get_payees",
                 get_payees(DictGet(args, "budget_id")))
      [] n = "get_payee" ->
            Case(args, <<"budget_id", "payee_id">>, "get_payee",
                 get_payee(DictGet(args, "budget_id"),
                           DictGet(args, "payee_id")))
      [] n = "get_transactions" ->
            Case(args, <<"budget_id">>, "get_transactions",
                 get_transactions(DictGet(args, "budget_id"),
                                  DictGet(args, "since_date"),
                                  DictGet(args, "type")))
      [] n = "get_transaction" ->
            Case(args, <<"budget_id", "transaction_id">>, "get_transaction",
                 get_transaction(DictGet(args, "budget_id"),
                                 DictGet(args, "transaction_id")))
      [] n = "get_transactions_by_account" ->
            Case(args, <<"budget_id", "account_id">>,
                 "get_transactions_by_account",
                 get_transactions_by_account(DictGet(args, "budget_id"),
                                             DictGet(args, "account_id"),
                                             DictGet(args, "since_date")))
      [] n = "get_transactions_by_category" ->
            Case(args, <<"budget_id", "category_id">>,
                 "get_transactions_by_category",
                 get_transactions_by_category(DictGet(args, "budget_id"),
                                              DictGet(args, "category_id"),
                                              DictGet(args, "since_date")))
      [] n = "get_transactions_by_payee" ->
            Case(args, <<"budget_id", "payee_id">>,
                 "get_transactions_by_payee",
                 get_transactions_by_payee(DictGet(args, "budget_id"),
                                           DictGet(args, "payee_id"),
                                           DictGet(args, "since_date")))
      [] n = "get_months" ->
            Case(args, <<"budget_id">>, "get_months",
                 get_months(DictGet(args, "budget_id")))
      [] n = "get_month" ->
            Case(args, <<"budget_id", "month">>, "get_month",
                 get_month(DictGet(args, "budget_id"), DictGet(args, "month")))
      [] n = "get_scheduled_transactions" ->
            Case(args, <<"budget_id">>, "get_scheduled_transactions",
                 get_scheduled_transactions(DictGet(args, "budget_id")))
      [] n = "get_scheduled_transaction" ->
            Case(args, <<"budget_id", "scheduled_transaction_id">>,
                 "get_scheduled_transaction",
                 get_scheduled_transaction(
                     DictGet(args, "budget_id"),
                     DictGet(args, "scheduled_transaction_id")))
      [] OTHER ->
            UnknownTool(n)

----------------------------------------------------------------------------
(* main.py: call_tool *)

TextContent(text) == [type |-> "text", text |-> text]

\* get_ynab_client as it would be if the client were built on the environment
\* without the configuration being loaded first
GetClientUnchecked(env) ==
    [raised |-> FALSE, exc |-> NoExc,
     client |-> YNABClient(Config(DictGetDefault(env, "YNAB_TOKEN", ""),
                                  DictGetDefault(env, "YNAB_BASE_URL", DefaultBaseUrl)))]

\* get_ynab_client(): the configuration is loaded, then the client is built
get_ynab_client(env) ==
    LET c == get_config(env)
    IN  IF c.raised
        THEN [raised |-> TRUE, exc |-> c.exc, client |-> YNABClient(NoConfig)]
        ELSE [raised |-> FALSE, exc |-> NoExc, client |-> YNABClient(c.config)]

\* the except clauses as they would be without the final `except Exception`
ExceptWithoutCatchAll(e) ==
    IF IsInstance(e, "YNABClientError")
    THEN [escaped |-> FALSE, content |-> <<TextContent("Error: " \o e.msg)>>]
    ELSE IF IsInstance(e, "ValueError")
    THEN [escaped |-> FALSE,
          content |-> <<TextContent("Configuration Error: " \o e.msg)>>]
    ELSE [escaped |-> TRUE, content |-> <<>>]

\* the except clauses of call_tool, in order, for the exception e that left
\* the try block: the list returned, or the exception going on to the caller
Except(e) ==
    IF IsInstance(e, "YNABClientError")
    THEN [escaped |-> FALSE, content |-> <<TextContent("Error: " \o e.msg)>>]
    ELSE IF IsInstance(e, "ValueError")
    THEN [escaped |-> FALSE,
          content |-> <<TextContent("Configuration Error: " \o e.msg)>>]
    ELSE IF IsInstance(e, "Exception")
    THEN [escaped |-> FALSE, content |-> <<TextContent("Error: " \o e.msg)>>]
    ELSE [escaped |-> TRUE, content |-> <<>>]

\* the return of the try block
Success(data) ==
    [escaped |-> FALSE, content |-> <<TextContent(format_response(data))>>]

----------------------------------------------------------------------------
(* The inputs *)

ArgKeys ==
    <<"budget_id", "account_id", "category_id", "payee_id", "transaction_id",
      "month", "scheduled_transaction_id", "since_date", "type">>

\* the values an argument mapping may give to a key
ArgValues(k) ==
    CASE k = "budget_id"                -> {"last-used", "budget-1"}
      [] k = "account_id"               -> {"account-1"}
      [] k = "category_id"              -> {"cat-1"}
      [] k = "payee_id"                 -> {"payee-1"}
      [] k = "transaction_id"           -> {"tx-1"}
      [] k = "month"                    -> {"2024-02-01"}
      [] k = "scheduled_transaction_id" -> {"st-1"}
      [] k = "since_date"               -> {None, "", "2024-01-01"}
      [] k = "type"                     -> {None, "", "uncategorized", "other"}

Absent == "<absent>"

\* every mapping from at most MaxArgs of the keys to values
ArgMaps ==
    LET C(i) == ArgValues(ArgKeys[i]) \cup {Absent}
        Index(k) == CHOOSE i \in DOMAIN ArgKeys : ArgKeys[i] = k
        Choices ==
            {t \in C(1) \X C(2) \X C(3) \X C(4) \X C(5) \X C(6) \X C(7) \X C(8) \X C(9) :
                Cardinality({i \in DOMAIN ArgKeys : t[i] # Absent}) <= MaxArgs}
    IN  {[k \in {ArgKeys[i] : i \in {j \in DOMAIN ArgKeys : t[j] # Absent}}
            |-> t[Index(k)]] : t \in Choices}

\* the names a caller may pass: the registered ones and some that are not
CallNames == ToolNames \cup {"unknown_tool", "GET_BUDGETS"}

\* the environments the process may run in
Environs ==
    {[k \in {"YNAB_TOKEN"} |-> ""],
     [k \in {"YNAB_TOKEN"} |-> "test-token"],
     [k \in {"YNAB_BASE_URL"} |-> "https://ynab.example/v1"],
     [k \in {"YNAB_TOKEN", "YNAB_BASE_URL"} |->
        IF k = "YNAB_TOKEN" THEN "test-token" ELSE "https://ynab.example/v1"],
     [k \in {"YNAB_TOKEN", "YNAB_BASE_URL"} |->
        IF k = "YNAB_TOKEN" THEN "" ELSE "https://ynab.example/v1"],
     EmptyMap}

\* the configurations a client is constructed with directly
DirectConfigs ==
    {Config("test-token", DefaultBaseUrl), Config("", DefaultBaseUrl)}

\* the bodies of the upstream's successful answers
Bodies ==
    {JObject(<<Member("data", JObject(<<Member("budgets", JArray(<<>>))>>))>>),
     JObject(<<Member("data",
                      JObject(<<Member("budget",
                                       JObject(<<Member("id", JString("budget-1")),
                                                 Member("name", JString("My Budget"))>>)),
                                Member("server_knowledge", JNumber(7))>>))>>),
     JObject(<<Member("data",
                      JObject(<<Member("transactions",
                                       JArray(<<JObject(<<Member("amount", JNumber(-5000)),
                                                          Member("memo", JString("say \"hi\"")),
                                                          Member("flag_color", JNull)>>),
                                                JObject(<<>>)>>))>>))>>)}

\* what the upstream may answer to a GET
Responses ==
    {HttpResponse(200, Dumps(j, 0), TRUE, j) : j \in Bodies}
    \cup {HttpResponse(200, "<html>maintenance</html>", FALSE, JNull)}
    \cup {HttpResponse(400, "{'error': {'detail': 'Bad Request'}}", FALSE, JNull),
          HttpResponse(401, "{'error': {'detail': 'Unauthorized'}}", FALSE, JNull),
          HttpResponse(500, "Internal Server Error", FALSE, JNull)}
    \cup {RequestError("Connection failed"), RequestError("timed out")}

----------------------------------------------------------------------------
(* The state machine *)

\* nothing remembered
NoLast ==
    [set |-> FALSE, name |-> "", arguments |-> EmptyMap, requests |-> <<>>,
     response |-> NoResponse, exc |-> NoExc, payload |-> JNull, result |-> <<>>]

Init ==
    /\ environ \in Environs
    /\ clients = <<>>
    /\ scope = <<>>
    /\ closeCalls = <<>>
    /\ pc = "idle"
    /\ name = ""
    /\ arguments = EmptyMap
    /\ cur = 0
    /\ method = ""
    /\ requests = <<>>
    /\ response = NoResponse
    /\ exc = NoExc
    /\ payload = JNull
    /\ result = <<>>
    /\ origin = <<>>
    /\ listed = <<>>
    /\ last = NoLast
    /\ calls = <<>>

\* call_tool ends: with the list it returns, or with the exception that escapes
Return(r) ==
    /\ pc' = IF r.escaped THEN "raised" ELSE "returned"
    /\ result' = r.content

\* a `with` block that would release a session shared by every invocation
LeaveWithShared(i) ==
    /\ clients' = [j \in DOMAIN clients |-> __exit__(clients[j]).client]
    /\ scope' = [j \in DOMAIN scope |-> "exited"]
    /\ closeCalls' = [closeCalls EXCEPT ![i] = closeCalls[i] + 1]

\* leaving the `with` block of call_tool: __exit__ on the invocation's client
LeaveWith(i) ==
    /\ clients' = [clients EXCEPT ![i] = __exit__(clients[i]).client]
    /\ scope' = [scope EXCEPT ![i] = "exited"]
    /\ closeCalls' = [closeCalls EXCEPT ![i] = closeCalls[i] + 1]

\* call_tool(n, args), up to its return or up to the GET it waits on
CallTool(n, args) ==
    /\ pc = "idle"
    /\ name' = n
    /\ arguments' = args
    /\ response' = NoResponse
    /\ payload' = JNull
    /\ UNCHANGED <<calls, environ, listed, last>>
    /\ LET got == get_ynab_client(environ)
           i == Len(clients) + 1
           run == _execute_tool(n, args)
       IN  IF got.raised
           THEN /\ exc' = got.exc
                /\ Return(Except(got.exc))
                /\ cur' = 0
                /\ method' = ""
                /\ requests' = <<>>
                /\ UNCHANGED <<clients, scope, closeCalls, origin>>
           ELSE /\ Len(clients) < MaxClients
                /\ cur' = i
                /\ origin' = Append(origin, "get_ynab_client")
                /\ method' = run.method
                /\ IF run.raised
                   THEN /\ clients' = Append(clients, __exit__(__enter__(got.client)).client)
                        /\ scope' = Append(scope, "exited")
                        /\ closeCalls' = Append(closeCalls, 1)
                        /\ requests' = <<>>
                        /\ exc' = run.exc
                        /\ Return(Except(run.exc))
                   ELSE /\ clients' = Append(clients, __enter__(got.client))
                        /\ scope' = Append(scope, "inside")
                        /\ closeCalls' = Append(closeCalls, 0)
                        /\ requests' = <<ClientGet(run.endpoint)>>
                        /\ exc' = NoExc
                        /\ pc' = "awaiting"
                        /\ result' = <<>>

\* the upstream answers r: _make_request ends, the `with` block is left, and
\* call_tool returns
Respond(r) ==
    /\ pc = "awaiting"
    /\ response' = r
    /\ LET got == _make_request(r)
       IN  /\ exc' = got.exc
           /\ payload' = got.value
           /\ LeaveWith(cur)
           /\ Return(IF got.raised THEN Except(got.exc) ELSE Success(got.value))
    /\ requests' = requests \o Retries(r, requests)
    /\ UNCHANGED <<calls, environ, name, arguments, cur, method, origin, listed, last>>

\* the server takes what call_tool returned; the invocation is over
EndInvocation ==
    /\ pc = "returned"
    /\ pc' = "idle"
    /\ name' = ""
    /\ arguments' = EmptyMap
    /\ cur' = 0
    /\ method' = ""
    /\ requests' = <<>>
    /\ response' = NoResponse
    /\ exc' = NoExc
    /\ payload' = JNull
    /\ result' = <<>>
    /\ UNCHANGED <<calls, environ, clients, scope, closeCalls, origin, listed>>

\* the invocation is over and its caller keeps nothing of it
Finish == EndInvocation /\ UNCHANGED last

\* the invocation is over and its caller remembers what it asked and got
Remember ==
    /\ EndInvocation
    /\ last' = [set |-> TRUE, name |-> name, arguments |-> arguments,
                requests |-> requests, response |-> response, exc |-> exc,
                payload |-> payload, result |-> result]

\* the caller asks for the tools: list_tools()
ListTools ==
    /\ pc = "idle"
    /\ listed' = list_tools
    /\ UNCHANGED <<calls, environ, clients, pc, name, arguments, cur, method, requests,
                   response, exc, payload, result, scope, closeCalls, origin, last>>

----------------------------------------------------------------------------
(* The client used directly, as a library: constructed from a configuration,
   closed with close() and used as the context of a `with` block, in any
   order *)

\* client = YNABClient(config)
DirectNew(config) ==
    /\ Len(clients) < MaxClients
    /\ clients' = Append(clients, YNABClient(config))
    /\ scope' = Append(scope, "none")
    /\ closeCalls' = Append(closeCalls, 0)
    /\ origin' = Append(origin, "YNABClient")
    /\ UNCHANGED <<calls, environ, pc, name, arguments, cur, method, requests,
                   response, exc, payload, result, listed, last>>

\* with client: ...
DirectEnter(i) ==
    /\ scope[i] # "inside"
    /\ clients' = [clients EXCEPT ![i] = __enter__(clients[i])]
    /\ scope' = [scope EXCEPT ![i] = "inside"]
    /\ UNCHANGED <<calls, environ, pc, name, arguments, cur, method, requests,
                   response, exc, payload, result, closeCalls, origin, listed, last>>

\* the end of the `with` block
DirectExit(i) ==
    /\ scope[i] = "inside"
    /\ closeCalls[i] < MaxCloses
    /\ exc = NoExc
    /\ clients' = [clients EXCEPT ![i] = __exit__(clients[i]).client]
    /\ exc' = __exit__(clients[i]).exc
    /\ scope' = [scope EXCEPT ![i] = "exited"]
    /\ closeCalls' = [closeCalls EXCEPT ![i] = closeCalls[i] + 1]
    /\ UNCHANGED <<calls, environ, pc, name, arguments, cur, method, requests,
                   response, payload, result, origin, listed, last>>

\* client.close()
DirectClose(i) ==
    /\ closeCalls[i] < MaxCloses
    /\ exc = NoExc
    /\ clients' = [clients EXCEPT ![i] = close(clients[i]).client]
    /\ exc' = close(clients[i]).exc
    /\ closeCalls' = [closeCalls EXCEPT ![i] = closeCalls[i] + 1]
    /\ UNCHANGED <<calls, environ, pc, name, arguments, cur, method, requests,
                   response, payload, result, scope, origin, listed, last>>

InitClient == Init /\ environ = EmptyMap

NextClient ==
    \/ \E config \in DirectConfigs : DirectNew(config)
    \/ \E i \in DOMAIN clients : DirectEnter(i)
    \/ \E i \in DOMAIN clients : DirectExit(i)
    \/ \E i \in DOMAIN clients : DirectClose(i)

SpecClient == InitClient /\ [][NextClient]_vars

----------------------------------------------------------------------------
(* The server as one caller observes it over several requests: the caller
   lists the tools, invokes a few of them repeatedly, and remembers an earlier
   invocation to compare a later one with *)

ObservedNames == ToolNames \cup {"unknown_tool"}

ObservedArgs ==
    {EmptyMap,
     [k \in {"budget_id"} |-> "last-used"],
     [k \in {"budget_id", "since_date"} |->
        IF k = "budget_id" THEN "budget-1" ELSE "2024-01-01"],
     [k \in {"budget_id", "account_id", "payee_id"} |->
        CASE k = "budget_id" -> "budget-1"
          [] k = "account_id" -> "account-1"
          [] k = "payee_id" -> "payee-1"]}

\* the answers of the upstream the caller meets: a body, a body that is not
\* JSON, a failure status and a failure of the transport
ObservedResponses ==
    {r \in Responses :
        \/ r.kind = "response" /\ r.status_code \in {200, 500}
        \/ r.kind = "request_error" /\ r.error = "timed out"}

InitObserver ==
    Init /\ environ \in {EmptyMap, [k \in {"YNAB_TOKEN"} |-> "test-token"]}

NextObserver ==
    \/ pc = "idle" /\ \E n \in ObservedNames, args \in ObservedArgs : CallTool(n, args)
    \/ pc = "awaiting" /\ \E r \in ObservedResponses : Respond(r)
    \/ Finish
    \/ Remember
    \/ ListTools

SpecObserver == InitObserver /\ [][NextObserver]_vars

----------------------------------------------------------------------------
(* Several call_tool invocations in flight together: the server starts an
   invocation while others wait for the upstream, and the answers arrive in
   any order *)

ConcurrentNames == {"get_budgets", "get_budget", "unknown_tool"}

ConcurrentArgs == {EmptyMap, [k \in {"budget_id"} |-> "budget-1"]}

ConcurrentResponses ==
    {r \in Responses :
        \/ r.kind = "response" /\ r.status_code = 500
        \/ r.kind = "response" /\ r.status_code = 200 /\ r.json \in {JNull, CHOOSE j \in Bodies : TRUE}
        \/ r.kind = "request_error" /\ r.error = "timed out"}

\* one invocation: its arguments, the index of its client (0 when it has
\* none), how far it is, and what it asked, got and returned
Invocation(n, args, client, at, reqs, r, e, content) ==
    [name |-> n, arguments |-> args, client |-> client, pc |-> at,
     requests |-> reqs, response |-> r, exc |-> e, result |-> content]

\* where call_tool is once it ended as r tells
Ended(r) == IF r.escaped THEN "raised" ELSE "returned"

\* call_tool(n, args) starts and runs up to its return or up to its GET
Begin(n, args) ==
    /\ Len(calls) < MaxClients
    /\ LET got == get_ynab_client(environ)
           i == Len(clients) + 1
           run == _execute_tool(n, args)
       IN  IF got.raised
           THEN /\ calls' = Append(calls,
                        Invocation(n, args, 0, Ended(Except(got.exc)), <<>>,
                                   NoResponse, got.exc, Except(got.exc).content))
                /\ UNCHANGED <<clients, scope, closeCalls, origin>>
           ELSE /\ origin' = Append(origin, "get_ynab_client")
                /\ IF run.raised
                   THEN /\ clients' = Append(clients, __exit__(__enter__(got.client)).client)
                        /\ scope' = Append(scope, "exited")
                        /\ closeCalls' = Append(closeCalls, 1)
                        /\ calls' = Append(calls,
                                Invocation(n, args, i, Ended(Except(run.exc)), <<>>,
                                           NoResponse, run.exc, Except(run.exc).content))
                   ELSE /\ clients' = Append(clients, __enter__(got.client))
                        /\ scope' = Append(scope, "inside")
                        /\ closeCalls' = Append(closeCalls, 0)
                        /\ calls' = Append(calls,
                                Invocation(n, args, i, "awaiting",
                                           <<ClientGet(run.endpoint)>>,
                                           NoResponse, NoExc, <<>>))
    /\ UNCHANGED <<environ, pc, name, arguments, cur, method, requests, response,
                   exc, payload, result, listed, last>>

\* the upstream answers r to the GET of the k-th invocation, which leaves its
\* `with` block and returns
Answer(k, r) ==
    /\ calls[k].pc = "awaiting"
    /\ LET got == _make_request(r)
           ended == IF got.raised THEN Except(got.exc) ELSE Success(got.value)
       IN  calls' = [calls EXCEPT ![k] =
                        Invocation(calls[k].name, calls[k].arguments, calls[k].client,
                                   Ended(ended),
                                   calls[k].requests \o Retries(r, calls[k].requests),
                                   r, got.exc, ended.content)]
    /\ LeaveWith(calls[k].client)
    /\ UNCHANGED <<environ, pc, name, arguments, cur, method, requests, response,
                   exc, payload, result, origin, listed, last>>

InitConcurrent ==
    Init /\ environ \in {[k \in {"YNAB_TOKEN"} |-> "test-token"], EmptyMap}

NextConcurrent ==
    \/ \E n \in ConcurrentNames, args \in ConcurrentArgs : Begin(n, args)
    \/ \E k \in DOMAIN calls, r \in ConcurrentResponses : Answer(k, r)

SpecConcurrent == InitConcurrent /\ [][NextConcurrent]_vars

Next ==
    \/ pc = "idle" /\ \E n \in CallNames, args \in ArgMaps : CallTool(n, args)
    \/ pc = "awaiting" /\ \E r \in Responses : Respond(r)
    \/ Finish

Spec == Init /\ [][Next]_vars

----------------------------------------------------------------------------
(* Properties *)

\* the invocation went past get_ynab_client: _execute_tool was entered
Dispatched == pc \in {"awaiting", "returned", "raised"} /\ cur # 0

\* the credential of the environment is missing or empty
CredentialMissing == ~Truthy(DictGet(environ, "YNAB_TOKEN"))

\* the invocation ended in a failure text
Failed == pc = "returned" /\ exc # NoExc

\* C1: call_tool never ends by raising: it is never left with an exception,
\* and whenever it has returned, what it returned is a list of exactly one
\* text payload, whatever the name, the arguments, the credential and the
\* upstream's answer.
C1_CallToolNeverRaises ==
    /\ pc \in {"idle", "awaiting", "returned"}
    /\ pc = "returned" =>
          /\ Len(result) = 1
          /\ result[1].type = "text"
          /\ (exc # NoExc => Contains(result[1].text, "Error: " \o exc.msg))

\* an invocation whose dispatch raised a KeyError has returned its text
C1_Witness ==
    /\ pc = "returned"
    /\ exc = KeyError("budget_id")
    /\ result = <<TextContent("Error: 'budget_id'")>>

\* C2: a failure text starts with "Configuration Error: " only when the
\* credential is missing or empty; every other failure text starts with
\* "Error: ".
C2_PrefixFollowsCause ==
    Failed =>
        /\ StartsWith(result[1].text, "Configuration Error: ") => CredentialMissing
        /\ ~CredentialMissing => StartsWith(result[1].text, "Error: ")

\* C3: dispatching a name that is not registered raises
\* ValueError("Unknown tool: <name>") and issues no GET, whatever the arguments.
C3_UnknownToolNeverReachesNetwork ==
    (Dispatched /\ name \notin ToolNames) =>
        /\ pc = "returned"
        /\ exc = Exc("ValueError", "Unknown tool: " \o name)
        /\ method = ""
        /\ requests = <<>>

\* an unregistered name was dispatched with arguments a registered tool accepts
C3_Witness ==
    /\ Dispatched
    /\ name = "GET_BUDGETS"
    /\ DOMAIN arguments = {"budget_id", "since_date"}
    /\ exc.msg = "Unknown tool: GET_BUDGETS"

\* C4: for a registered tool, dispatch fails before any GET exactly when a
\* parameter of the tool's "required" list is missing from the arguments.
C4_RequiredExactlyFailsDispatch ==
    (Dispatched /\ name \in ToolNames) =>
        ((Failed /\ requests = <<>>)
            <=> (\E k \in Required(name) : k \notin DOMAIN arguments))

\* a tool given its optional parameter but not its second required one failed
\* before any GET
C4_Witness ==
    /\ Dispatched
    /\ name = "get_transactions_by_account"
    /\ DOMAIN arguments = {"budget_id", "since_date"}
    /\ exc = KeyError("account_id")
    /\ requests = <<>>

\* C5: when the upstream answers with a status >= 400, the client method
\* raises YNABClientError, its message contains the status code and the body
\* text, and no payload is returned.
C5_StatusErrorIsGatewayError ==
    (pc = "returned" /\ response.kind = "response" /\ response.status_code >= 400) =>
        /\ exc.kind = "YNABClientError"
        /\ Contains(exc.msg, ToString(response.status_code))
        /\ Contains(exc.msg, response.text)
        /\ payload = JNull
        /\ result = <<TextContent("Error: " \o exc.msg)>>

\* get_month was answered 401
C5_Witness ==
    /\ pc = "returned"
    /\ method = "get_month"
    /\ response.status_code = 401
    /\ exc.msg = "YNAB API request failed with status 401: "
                 \o "{'error': {'detail': 'Unauthorized'}}"

\* the status codes an upstream answer may carry, as texts
StatusCodeTexts == {ToString(r.status_code) : r \in {x \in Responses : x.kind = "response"}}

\* C6: when the GET fails in the transport, the client method raises
\* YNABClientError, its message contains the description of the failure and
\* no HTTP status code, and no payload is returned.
C6_TransportErrorIsGatewayError ==
    (pc = "returned" /\ response.kind = "request_error") =>
        /\ exc.kind = "YNABClientError"
        /\ Contains(exc.msg, response.error)
        /\ \A c \in StatusCodeTexts : ~Contains(exc.msg, c)
        /\ ~Contains(exc.msg, "status")
        /\ payload = JNull

\* the GET of get_scheduled_transaction timed out
C6_Witness ==
    /\ pc = "returned"
    /\ method = "get_scheduled_transaction"
    /\ response = RequestError("timed out")
    /\ exc.msg = "YNAB API request failed: timed out"

\* the methods that list transactions, the filters each accepts, and the
\* resource path of each
TransactionLists ==
    {"get_transactions", "get_transactions_by_account",
     "get_transactions_by_category", "get_transactions_by_payee"}

Filters(m) == IF m = "get_transactions" THEN {"since_date", "type"} ELSE {"since_date"}

Supplied(m, args) == {k \in Filters(m) \cap DOMAIN args : Truthy(args[k])}

ResourcePath(m, args) ==
    LET b == "/budgets/" \o Str(args["budget_id"])
    IN  CASE m = "get_transactions" -> b \o "/transactions"
          [] m = "get_transactions_by_account" ->
                b \o "/accounts/" \o Str(args["account_id"]) \o "/transactions"
          [] m = "get_transactions_by_category" ->
                b \o "/categories/" \o Str(args["category_id"]) \o "/transactions"
          [] m = "get_transactions_by_payee" ->
                b \o "/payees/" \o Str(args["payee_id"]) \o "/transactions"

\* C7: the methods that list transactions issue the GET to the plain resource
\* path, with exactly the supplied filters as the query-parameter mapping and
\* no filter inside the path.
C7_FiltersAreQueryParameters ==
    (Dispatched /\ method \in TransactionLists) =>
        /\ Len(requests) = 1
        /\ requests[1].url = ResourcePath(method, arguments)
        /\ ~Contains(requests[1].url, "?")
        /\ DOMAIN requests[1].params = Supplied(method, arguments)
        /\ \A k \in Supplied(method, arguments) : requests[1].params[k] = arguments[k]

C9_SessionsReleased ==
    /\ \A i \in DOMAIN clients :
          ~clients[i].session.is_closed => (pc = "awaiting" /\ i = cur)
    /\ Dispatched /\ pc # "awaiting" => clients[cur].session.is_closed

\* a second invocation failed in the gateway after its session was opened
C9_Witness ==
    /\ pc = "returned"
    /\ cur = 2
    /\ exc.kind = "YNABClientError"
    /\ clients[1].session.is_closed
    /\ clients[2].session.is_closed

\* the session of client i is in the state one close() leaves it in
ClosedOnce(i) ==
    /\ clients[i].session.is_closed
    /\ clients[i].session.transport_closes = 1

\* C10: close() and leaving a `with` block, any number of times and in any
\* order, raise nothing, and once the session is closed each of them leaves it
\* as the first close left it.
C10_CloseIdempotent ==
    /\ [](exc = NoExc)
    /\ [](\A i \in DOMAIN clients : closeCalls[i] >= 1 => ClosedOnce(i))
    /\ [][\A i \in DOMAIN clients :
            clients[i].session.is_closed => clients'[i] = clients[i]]_vars

\* a client was closed, left a `with` block and was closed again
C10_Witness ==
    \E i \in DOMAIN clients :
        /\ closeCalls[i] >= 3
        /\ scope[i] = "exited"
        /\ ClosedOnce(i)

\* C11: an invocation issues at most one GET: exactly one when dispatch
\* reached a client method, none when it failed before; a GET that failed
\* (status or transport) is not followed by a second one.
C11_AtMostOneGet ==
    /\ Len(requests) <= 1
    /\ pc \in {"awaiting", "returned"} => (Len(requests) = 1 <=> method # "")
    /\ (pc = "returned" /\ cur = 0) => requests = <<>>
    /\ (pc = "returned" /\ response.kind # "") => Len(requests) = 1

\* a GET was answered 500 and the invocation returned with one GET made
C11_Witness ==
    /\ pc = "returned"
    /\ response.kind = "response"
    /\ response.status_code = 500
    /\ exc.kind = "YNABClientError"
    /\ Len(requests) = 1

TableEntry(tool_name, required, optional) ==
    [name |-> tool_name, required |-> required, optional |-> optional]

InterfaceTable ==
    {TableEntry("get_budgets", {}, {}),
     TableEntry("get_budget", {"budget_id"}, {}),
     TableEntry("get_budget_settings", {"budget_id"}, {}),
     TableEntry("get_accounts", {"budget_id"}, {}),
     TableEntry("get_account", {"budget_id", "account_id"}, {}),
     TableEntry("get_categories", {"budget_id"}, {}),
     TableEntry("get_category", {"budget_id", "category_id"}, {}),
     TableEntry("get_payees", {"budget_id"}, {}),
     TableEntry("get_payee", {"budget_id", "payee_id"}, {}),
     TableEntry("get_transactions", {"budget_id"}, {"since_date", "type"}),
     TableEntry("get_transaction", {"budget_id", "transaction_id"}, {}),
     TableEntry("get_transactions_by_account", {"budget_id", "account_id"}, {"since_date"}),
     TableEntry("get_transactions_by_category", {"budget_id", "category_id"}, {"since_date"}),
     TableEntry("get_transactions_by_payee", {"budget_id", "payee_id"}, {"since_date"}),
     TableEntry("get_months", {"budget_id"}, {}),
     TableEntry("get_month", {"budget_id", "month"}, {}),
     TableEntry("get_scheduled_transactions", {"budget_id"}, {}),
     TableEntry("get_scheduled_transaction", {"budget_id", "scheduled_transaction_id"}, {})}

RequiredOf(tool) == {tool.required[i] : i \in DOMAIN tool.required}

\* what a list of descriptors declares, in the terms of the interface table
Declared(tools) ==
    {TableEntry(tools[i].name, RequiredOf(tools[i]),
                tools[i].properties \ RequiredOf(tools[i])) : i \in DOMAIN tools}

\* C13: every list_tools call returns the same 18 descriptors, their names
\* pairwise distinct, each with a non-empty description, required parameters
\* that are declared properties, and the required and optional sets of the
\* interface table.
C13_RegistryCompleteAndStable ==
    /\ [](listed # <<>> =>
            /\ Len(listed) = 18
            /\ \A i, j \in DOMAIN listed : listed[i].name = listed[j].name => i = j
            /\ \A i \in DOMAIN listed :
                  /\ listed[i].description # ""
                  /\ RequiredOf(listed[i]) \subseteq listed[i].properties
                  /\ Len(listed[i].required) = Cardinality(RequiredOf(listed[i]))
            /\ Declared(listed) = InterfaceTable)
    /\ [][listed # <<>> => listed' = listed]_vars

\* the tools were listed, and two invocations later the caller may list them
\* again
C13_Witness ==
    /\ Len(listed) = 18
    /\ Len(clients) = 2
    /\ pc = "idle"

\* the unknown-tool error of the name n
UnknownToolError(n) == Exc("ValueError", "Unknown tool: " \o n)

\* C14: registry and dispatcher agree: once a client was built, a name that
\* list_tools returns and whose required arguments are all present invokes
\* exactly the client method of that name (so distinct names invoke distinct
\* methods) and never fails as unknown, while a name that list_tools does not
\* return invokes no method and fails as unknown.
C14_RegistryMatchesDispatcher ==
    Dispatched =>
        /\ name \in ToolNames =>
              /\ exc # UnknownToolError(name)
              /\ method \in {"", name}
              /\ Required(name) \subseteq DOMAIN arguments =>
                    (method = name /\ Len(requests) = 1)
        /\ name \notin ToolNames =>
              /\ method = ""
              /\ requests = <<>>
              /\ exc = UnknownToolError(name)

\* get_payee, with both required arguments, reached the client method
\* get_payee and returned the upstream body
C14_Witness ==
    /\ pc = "returned"
    /\ name = "get_payee"
    /\ DOMAIN arguments = {"budget_id", "payee_id"}
    /\ method = "get_payee"
    /\ exc = NoExc
    /\ payload \in Bodies

\* the part of a URL before its query
RECURSIVE BeforeQuery(_)
BeforeQuery(url) ==
    IF url = "" \/ SubSeq(url, 1, 1) = "?" THEN ""
    ELSE SubSeq(url, 1, 1) \o BeforeQuery(SubSeq(url, 2, Len(url)))

\* the path template of each tool, filled from the argument mapping
PathTemplate(n, args) ==
    LET b == "/budgets/" \o args["budget_id"]
    IN  CASE n = "get_budgets" -> "/budgets"
          [] n = "get_budget" -> b
          [] n = "get_budget_settings" -> b \o "/settings"
          [] n = "get_accounts" -> b \o "/accounts"
          [] n = "get_account" -> b \o "/accounts/" \o args["account_id"]
          [] n = "get_categories" -> b \o "/categories"
          [] n = "get_category" -> b \o "/categories/" \o args["category_id"]
          [] n = "get_payees" -> b \o "/payees"
          [] n = "get_payee" -> b \o "/payees/" \o args["payee_id"]
          [] n = "get_transactions" -> b \o "/transactions"
          [] n = "get_transaction" -> b \o "/transactions/" \o args["transaction_id"]
          [] n = "get_transactions_by_account" ->
                b \o "/accounts/" \o args["account_id"] \o "/transactions"
          [] n = "get_transactions_by_category" ->
                b \o "/categories/" \o args["category_id"] \o "/transactions"
          [] n = "get_transactions_by_payee" ->
                b \o "/payees/" \o args["payee_id"] \o "/transactions"
          [] n = "get_months" -> b \o "/months"
          [] n = "get_month" -> b \o "/months/" \o args["month"]
          [] n = "get_scheduled_transactions" -> b \o "/scheduled_transactions"
          [] n = "get_scheduled_transaction" ->
                b \o "/scheduled_transactions/" \o args["scheduled_transaction_id"]

\* C15: the path of the GET of every tool is the tool's template with the
\* identifier arguments inserted verbatim, each in its own position.
C15_PathFromTemplate ==
    requests # <<>> =>
        /\ name \in ToolNames
        /\ BeforeQuery(requests[1].url) = PathTemplate(name, arguments)

\* get_account was called with a budget and an account identifier and its GET
\* went out
C15_Witness ==
    /\ pc = "awaiting"
    /\ name = "get_account"
    /\ arguments = [k \in {"budget_id", "account_id"} |->
                      IF k = "budget_id" THEN "budget-1" ELSE "account-1"]
    /\ requests = <<ClientGet("/budgets/budget-1/accounts/account-1")>>

\* what Config.from_env is to return under the environment of the process
ExpectedConfig ==
    [ynab_token    |-> environ["YNAB_TOKEN"],
     ynab_base_url |-> IF "YNAB_BASE_URL" \in DOMAIN environ
                       THEN environ["YNAB_BASE_URL"]
                       ELSE "https://api.ynab.com/v1"]

\* C16: with the token missing or empty, loading the configuration fails with
\* a ValueError that names YNAB_TOKEN and no client is built; otherwise the
\* client is built on a Config with exactly that token and the base URL
\* override if one is set, else the default.
C16_FromEnv ==
    (pc \in {"awaiting", "returned"}) =>
        IF "YNAB_TOKEN" \notin DOMAIN environ \/ environ["YNAB_TOKEN"] = ""
        THEN /\ cur = 0
             /\ clients = <<>>
             /\ exc.kind = "ValueError"
             /\ Contains(exc.msg, "YNAB_TOKEN")
        ELSE /\ cur # 0
             /\ clients[cur].config = ExpectedConfig

\* a client was built under an environment that sets token and override
C16_Witness ==
    /\ pc = "awaiting"
    /\ DOMAIN environ = {"YNAB_TOKEN", "YNAB_BASE_URL"}
    /\ clients[cur].config =
          [ynab_token |-> "test-token", ynab_base_url |-> "https://ynab.example/v1"]

\* C17: no client exists whose credential is empty: constructing one with an
\* absent or empty credential fails and creates no session.
C17_NoClientWithEmptyCredential ==
    \A i \in DOMAIN clients :
        /\ clients[i].config.ynab_token # ""
        /\ clients[i].session.headers.Authorization # "Bearer "

\* the i-th request of the invocation as the session of its client sends it
Sent(i) ==
    [http_method   |-> requests[i].http_method,
     url           |-> clients[cur].session.base_url \o requests[i].url,
     authorization |-> clients[cur].session.headers.Authorization]

\* C19: every request is a GET sent to the base URL and with the bearer
\* credential that the session of its client was bound to at construction,
\* and no step changes the base URL, the headers or the configuration of a
\* client that exists.
C19_GetWithFixedBinding ==
    /\ [](\A i \in DOMAIN requests :
            /\ Sent(i).http_method = "GET"
            /\ Sent(i).authorization = "Bearer " \o ExpectedConfig.ynab_token
            /\ Sent(i).url = ExpectedConfig.ynab_base_url \o requests[i].url
            /\ clients[cur].session.base_url = clients[cur].config.ynab_base_url)
    /\ [][\A i \in DOMAIN clients :
            /\ clients'[i].config = clients[i].config
            /\ clients'[i].session.base_url = clients[i].session.base_url
            /\ clients'[i].session.headers = clients[i].session.headers]_vars

\* the second session of the process sent its GET to the overriding base URL
\* and was closed afterwards
C19_Witness ==
    /\ pc = "returned"
    /\ cur = 2
    /\ Len(requests) = 1
    /\ Sent(1).url = "https://ynab.example/v1/budgets"
    /\ Sent(1).authorization = "Bearer test-token"
    /\ clients[cur].session.is_closed

\* C20: a client method either returns the upstream body or raises the
\* gateway error: whatever the upstream answered, the exception that left the
\* method, if any, is a YNABClientError.
C20_OnlyGatewayErrorEscapes ==
    (pc = "returned" /\ method # "" /\ exc # NoExc) => exc.kind = "YNABClientError"

\* json.loads of the texts that occur: of the bodies the upstream sends and of
\* what format_response makes of the payloads, parsed once each
TextsSeen ==
    {r.text : r \in {x \in Responses : x.kind = "response"}}
    \cup {format_response(j) : j \in Bodies}

LoadsOfTextsSeen == [t \in TextsSeen |-> Loads(t)]

JsonLoads(text) ==
    IF text \in TextsSeen THEN LoadsOfTextsSeen[text] ELSE Loads(text)

\* C18: on success the upstream body passes through unchanged: what the
\* client method returned, and so what _execute_tool returned, is the parsed
\* body of the response, and the text that call_tool returns parses back to
\* that body.
C18_BodyPassedThrough ==
    (pc = "returned" /\ exc = NoExc) =>
        /\ response.kind = "response"
        /\ payload = response.json
        /\ payload = JsonLoads(response.text)
        /\ Len(result) = 1
        /\ JsonLoads(result[1].text) = response.json

\* a body with a negative number, a string with quotes, a null and an empty
\* object came back as the returned text
C18_Witness ==
    /\ pc = "returned"
    /\ exc = NoExc
    /\ name = "get_transactions"
    /\ Contains(result[1].text, "-5000")
    /\ Contains(result[1].text, "\\\"hi\\\"")
    /\ JsonLoads(result[1].text) = response.json

\* C22: the credential is loaded before the tool name is looked up: with the
\* credential missing or empty every invocation, whatever its name and its
\* arguments, returns the "Configuration Error: " text of the missing
\* credential, no session is created and no GET is issued.
C22_CredentialBeforeLookup ==
    (CredentialMissing /\ pc # "idle") =>
        /\ pc = "returned"
        /\ result = <<TextContent("Configuration Error: " \o TokenRequiredMessage)>>
        /\ clients = <<>>
        /\ cur = 0
        /\ method = ""
        /\ requests = <<>>

\* an unrecognized tool name was invoked without a credential and got the
\* configuration error, not the unknown-tool one
C22_Witness ==
    /\ pc = "returned"
    /\ "YNAB_TOKEN" \notin DOMAIN environ
    /\ name = "unknown_tool"
    /\ StartsWith(result[1].text, "Configuration Error: YNAB_TOKEN")
    /\ clients = <<>>

EndsWith(s, suffix) ==
    Len(s) >= Len(suffix) /\ SubSeq(s, Len(s) - Len(suffix) + 1, Len(s)) = suffix

\* the enum that the schema of get_transactions declares for "type"
DeclaredTypes == {"uncategorized", "unapproved"}

\* C24: the "type" argument of get_transactions is not held to its enum: any
\* non-empty value, declared or not, leaves dispatch without an error and goes
\* out unchanged as the type filter of the one request.
C24_TypeNotCheckedAgainstEnum ==
    (Dispatched /\ name = "get_transactions" /\ "budget_id" \in DOMAIN arguments
        /\ "type" \in DOMAIN arguments /\ arguments["type"] \notin {None, ""}) =>
        /\ method = "get_transactions"
        /\ Len(requests) = 1
        /\ pc = "awaiting" => exc = NoExc
        /\ EndsWith(requests[1].url, "type=" \o arguments["type"])
        /\ StartsWith(requests[1].url,
                      "/budgets/" \o arguments["budget_id"] \o "/transactions?")

\* a value outside the enum went out as the type filter
C24_Witness ==
    /\ pc = "awaiting"
    /\ name = "get_transactions"
    /\ DOMAIN arguments = {"budget_id", "type"}
    /\ arguments["type"] \notin DeclaredTypes
    /\ requests[1].url = "/budgets/budget-1/transactions?type=other"

\* the argument mapping without the filters whose value is empty or null
WithoutEmptyFilters(args) ==
    [k \in {x \in DOMAIN args : ~(x \in {"since_date", "type"} /\ args[x] \in {None, ""})}
        |-> args[k]]

\* C25: a filter given as the empty string or as null counts as absent: the
\* request of a transaction list is the request of the same invocation with
\* that key missing, and no filter goes out with an empty value.
C25_EmptyFilterIsAbsent ==
    (Dispatched /\ method \in TransactionLists) =>
        /\ requests =
              <<ClientGet(_execute_tool(name, WithoutEmptyFilters(arguments)).endpoint)>>
        /\ \A k \in {"since_date", "type"} :
              /\ ~EndsWith(requests[1].url, k \o "=")
              /\ ~Contains(requests[1].url, k \o "=&")
              /\ ~Contains(requests[1].url, k \o "=None")
        /\ \A k \in DOMAIN requests[1].params : requests[1].params[k] \notin {None, ""}

\* get_transactions went out without any query although both filters were
\* given, one empty and one null
C25_Witness ==
    /\ pc = "awaiting"
    /\ name = "get_transactions"
    /\ DOMAIN arguments = {"budget_id", "since_date", "type"}
    /\ arguments["since_date"] = ""
    /\ arguments["type"] = None
    /\ requests[1].url = "/budgets/budget-1/transactions"

\* the invocations that hold a session
WithSession == {k \in DOMAIN calls : calls[k].client # 0}

\* a step leaves the k-th invocation and its session as they were
Untouched(k) ==
    /\ calls'[k] = calls[k]
    /\ k \in WithSession =>
          /\ clients'[calls[k].client] = clients[calls[k].client]
          /\ scope'[calls[k].client] = scope[calls[k].client]
          /\ closeCalls'[calls[k].client] = closeCalls[calls[k].client]

\* C21: invocations in flight together are independent: each has a session of
\* its own, which stays open until that invocation itself leaves its `with`
\* block and is then closed once, and a step of one invocation (its start, its
\* failure, the release of its session) leaves the session, the request and
\* the result of every other invocation as they were.
C21_InvocationsIndependent ==
    /\ [](/\ \A j, k \in WithSession : calls[j].client = calls[k].client => j = k
          /\ \A k \in WithSession :
                IF calls[k].pc = "awaiting"
                THEN /\ ~clients[calls[k].client].session.is_closed
                     /\ closeCalls[calls[k].client] = 0
                ELSE /\ clients[calls[k].client].session.is_closed
                     /\ clients[calls[k].client].session.transport_closes = 1
                     /\ closeCalls[calls[k].client] = 1)
    /\ [][/\ Len(calls') > Len(calls) => \A k \in DOMAIN calls : Untouched(k)
          /\ \A j, k \in DOMAIN calls : (j # k /\ ~Untouched(j)) => Untouched(k)]_vars

\* the first invocation still waits for the upstream, its session open, after
\* the second failed in the gateway and released its own
C21_Witness ==
    /\ Len(calls) = 2
    /\ calls[1].pc = "awaiting"
    /\ ~clients[calls[1].client].session.is_closed
    /\ calls[2].pc = "returned"
    /\ calls[2].exc.kind = "YNABClientError"
    /\ clients[calls[2].client].session.is_closed

\* C23: network I/O happens only while the session is held: a GET is issued
\* by the client of its invocation inside the `with` block, on a session that
\* is open; the session stays open while the answer is awaited and is released
\* only afterwards, and no GET is added once it is released.
C23_GetOnlyWhileSessionHeld ==
    /\ [](/\ pc = "awaiting" =>
                /\ cur = Len(clients)
                /\ scope[cur] = "inside"
                /\ ~clients[cur].session.is_closed
                /\ clients[cur].session.transport_closes = 0
          /\ requests # <<>> => (cur # 0 /\ pc \in {"awaiting", "returned"})
          /\ \A i \in DOMAIN clients :
                (i # cur \/ pc \notin {"awaiting", "returned"}) => scope[i] = "exited")
    /\ [][Len(requests') > Len(requests) =>
            /\ cur' = Len(clients')
            /\ scope'[cur'] = "inside"
            /\ ~clients'[cur'].session.is_closed]_vars

\* the GET of the second invocation was answered and its session, open until
\* then, is closed
C23_Witness ==
    /\ pc = "returned"
    /\ cur = 2
    /\ Len(requests) = 1
    /\ response.kind = "response"
    /\ scope[cur] = "exited"
    /\ clients[cur].session.is_closed
    /\ clients[cur].session.transport_closes = 1

====
